---- MODULE Spec2Model ----
(***************************************************************************)
(* Model of rustc's reachability pass (middle/trans/reachable.rs).         *)
(* find_reachable walks the crate from its export tables, marks every      *)
(* item it reaches in rmap, walks the bodies of generic and inline items,  *)
(* and then sweeps the crate once more for destructors and impls.          *)
(* The recursion of the pass is modelled by an explicit call stack: the    *)
(* top frame names the function (or loop iteration) that runs next.        *)
(***************************************************************************)
EXTENDS Integers, Sequences, FiniteSets, TLC

VARIABLES
    tcx_items,   \* cx.tcx.items: node id -> ast_map node (input)
    def_map,     \* cx.tcx.def_map: node id -> def (input)
    exp_map2,    \* cx.exp_map2: module id -> export list, or no entry (input)
    exp_other,   \* the export table a second run of the pass is given
    rmap,        \* cx.rmap, the reachability set
    stack,       \* the call stack of the traversal, top frame first
    pc,          \* "start" | "running" | "done" | "aborted"
    result,      \* what find_reachable handed to its caller
    inserted,    \* the identifiers the last step passed to rmap.insert
    log,         \* history of the run: <<event, id>>, see the actions
    run,         \* which run of the pass this is (1 or 2)
    prev         \* the result of the first run, once a second one started

vars == <<tcx_items, def_map, exp_map2, exp_other, rmap, stack, pc, result,
          inserted, log, run, prev>>

inputs == <<tcx_items, def_map, exp_map2, exp_other, run, prev>>

(***************************************************************************)
(* Program constants and bounds.                                           *)
(***************************************************************************)
local_crate == 0
crate_node_id == 0

\* Export lists hold at most MaxExports definition references in all.
MaxExports == 2
\* The base table of a two-run comparison lists at most MaxPairExports.
MaxPairExports == 1
\* The call stack never needs more than MaxStack frames on these crates.
MaxStack == 14

(***************************************************************************)
(* The AST of the crate under analysis.                                    *)
(***************************************************************************)
Node(node, kind, tps, inline, parent, subs, dtor, body, ty) ==
    [node |-> node, kind |-> kind, tps |-> tps, inline |-> inline,
     parent |-> parent, subs |-> subs, dtor |-> dtor, body |-> body, ty |-> ty]

Item(kind, tps, inline, subs, dtor, body, ty) ==
    Node("item", kind, tps, inline, 0, subs, dtor, body, ty)

ItemMod(items)            == Item("mod", 0, FALSE, items, <<>>, <<>>, <<>>)
ItemForeignMod(items)     == Item("foreign_mod", 0, FALSE, items, <<>>, <<>>, <<>>)
ItemFn(tps, inline, blk)  == Item("fn", tps, inline, <<>>, <<>>, blk, <<>>)
ItemImpl(tps, ms)         == Item("impl", tps, FALSE, ms, <<>>, <<>>, <<>>)
ItemClass(tps, ms, dtor)  == Item("class", tps, FALSE, ms, dtor, <<>>, <<>>)
ItemTy(t)                 == Item("ty", 0, FALSE, <<>>, <<>>, <<>>, <<t>>)
ItemEnum(variants)        == Item("enum", 0, FALSE, variants, <<>>, <<>>, <<>>)
ItemTrait(ms)             == Item("trait", 0, FALSE, ms, <<>>, <<>>, <<>>)
ItemConst(init)           == Item("const", 0, FALSE, <<>>, <<>>, init, <<>>)
ItemLeaf(kind)            == Item(kind, 0, FALSE, <<>>, <<>>, <<>>, <<>>)
Method(owner, tps, inline, blk) ==
    Node("method", "", tps, inline, owner, <<>>, <<>>, blk, <<>>)
Dtor(owner, inline, blk)  ==
    Node("dtor", "", 0, inline, owner, <<>>, <<>>, blk, <<>>)
Leaf(node)                == Node(node, "", 0, FALSE, 0, <<>>, <<>>, <<>>, <<>>)

\* Body elements in visit order (an expression comes before its children).
ExprPath(id)   == [e |-> "path",  id |-> id, in_expr |-> FALSE]
ExprField(id)  == [e |-> "field", id |-> id, in_expr |-> FALSE]
ExprOther(id)  == [e |-> "other", id |-> id, in_expr |-> FALSE]
StmtItem(id)   == [e |-> "item",  id |-> id, in_expr |-> FALSE]
\* an item declared in a block that is part of an expression
InnerItem(id)  == [e |-> "item",  id |-> id, in_expr |-> TRUE]

\* crate_mod.items
crate_mod == <<1, 3, 4>>

ItemTree ==
       \* fn f<T>: calls g, a static method, declares n and impl J, calls f2
       1  :> ItemFn(1, FALSE, <<ExprPath(50), ExprField(51), StmtItem(10),
                               StmtItem(28), ExprPath(52), ExprOther(53),
                               ExprField(54), ExprPath(55), ExprField(69)>>)
       \* fn g: plain; its body is never walked
    @@ 2  :> ItemFn(0, FALSE, <<ExprPath(56), ExprPath(57)>>)
       \* mod A { g, h, impl I, mod B, f2 }
    @@ 3  :> ItemMod(<<2, 5, 6, 7, 8>>)
       \* foreign mod FM { 40, 41 }
    @@ 4  :> ItemForeignMod(<<40, 41>>)
       \* fn h: plain, nobody refers to it from a walked body
    @@ 5  :> ItemFn(0, FALSE, <<>>)
       \* impl I { m1<T>, m2 }; Init also takes the impls as impl<T>
    @@ 6  :> ItemImpl(0, <<11, 12>>)
       \* mod B { class R, type T1, type T2, enum E, trait Tr, const c, class R3,
       \*         type T3 }
    @@ 7  :> ItemMod(<<9, 13, 14, 15, 16, 17, 18, 25>>)
       \* #[inline] fn f2: calls f, declares class R2 inside an expression
    @@ 8  :> ItemFn(0, TRUE, <<ExprPath(59), ExprOther(60), InnerItem(20),
                               ExprPath(61), ExprPath(62), ExprField(68),
                               ExprField(78)>>)
       \* class R { drop 21, #[inline] method 22 }
    @@ 9  :> ItemClass(0, <<22>>, <<21>>)
       \* fn n<T>, declared in f's body, calls f
    @@ 10 :> ItemFn(1, FALSE, <<ExprPath(65)>>)
    @@ 11 :> Method(6, 1, FALSE, <<ExprField(58)>>)
    @@ 12 :> Method(6, 0, FALSE, <<ExprPath(63)>>)
    @@ 13 :> ItemTy(30)
    @@ 14 :> ItemTy(31)
    @@ 15 :> ItemEnum(<<19>>)
       \* trait Tr { method 27 }
    @@ 16 :> ItemTrait(<<27>>)
       \* const c, whose initializer calls h
    @@ 17 :> ItemConst(<<ExprPath(81)>>)
       \* class R3 { method 24 }: no destructor
    @@ 18 :> ItemClass(0, <<24>>, <<>>)
    @@ 19 :> Leaf("variant")
       \* class R2<T> { drop 23 }, declared inside f2; the destructor reads c
    @@ 20 :> ItemClass(1, <<>>, <<23>>)
    @@ 21 :> Dtor(9, FALSE, <<ExprPath(64)>>)
    @@ 22 :> Method(9, 0, TRUE, <<ExprPath(66)>>)
    @@ 23 :> Dtor(20, FALSE, <<ExprPath(67)>>)
    @@ 24 :> Method(18, 0, FALSE, <<>>)
    @@ 25 :> ItemTy(39)
    @@ 27 :> Leaf("trait_method")
       \* impl J { m3 }, declared in f's body; m3 names trait Tr
    @@ 28 :> ItemImpl(0, <<29>>)
    @@ 29 :> Method(28, 0, FALSE, <<ExprPath(82)>>)
    @@ 40 :> Leaf("foreign_item")
    @@ 41 :> Leaf("foreign_item")
       \* a local variable of f
    @@ 45 :> Leaf("local")

\* Type expressions: a ty_path has a path id p_id and type arguments; every
\* other shape only has child type expressions.
TyPath(p_id, types) == [k |-> "path", p_id |-> p_id, types |-> types]
TyOther(children)   == [k |-> "other", p_id |-> 0, types |-> children]

TyNodes ==
       \* type T1 = T2<prim<E>>
       30 :> TyPath(70, <<32>>)
    @@ 32 :> TyPath(72, <<33>>)
    @@ 33 :> TyPath(73, <<>>)
       \* type T2 = [T1, unresolved<extern::X<R, gone>>]
    @@ 31 :> TyOther(<<34, 35>>)
    @@ 34 :> TyPath(74, <<>>)
    @@ 35 :> TyPath(75, <<36>>)
    @@ 36 :> TyPath(76, <<37, 38>>)
    @@ 37 :> TyPath(77, <<>>)
    @@ 38 :> TyPath(79, <<>>)
       \* type T3 = prim
    @@ 39 :> TyPath(80, <<>>)

Def(crate, node) == [k |-> "def", crate |-> crate, node |-> node]
Local(node)      == Def(local_crate, node)
Extern(node)     == Def(local_crate + 1, node)
PrimTy           == [k |-> "prim", crate |-> local_crate, node |-> 0]

\* The name-resolution bindings of a well-formed crate.
DefMapFull ==
       50 :> Local(2)       \* f -> g
    @@ 52 :> Local(8)       \* f -> f2
    @@ 55 :> Local(45)      \* f -> a local variable
    @@ 56 :> Local(5)       \* g -> h (in a body that is never walked)
    @@ 57 :> Local(1)
    @@ 59 :> Local(1)       \* f2 -> f
    @@ 61 :> Extern(7)      \* f2 -> an item of another crate
    @@ 62 :> Local(99)      \* f2 -> self: no entry in the item tree
    @@ 63 :> Local(17)      \* m2 -> const c
    @@ 64 :> Local(2)       \* R's destructor -> g (not walked)
    @@ 65 :> Local(1)       \* n -> f
    @@ 66 :> Local(19)      \* R's method -> a variant of E
    @@ 67 :> Local(17)      \* R2's destructor -> const c
    @@ 70 :> Local(14)      \* T1 names T2
    @@ 72 :> PrimTy
    @@ 73 :> Local(15)      \* ... and E as a type argument of a primitive
    @@ 74 :> Local(13)      \* T2 names T1
    @@ 76 :> Extern(3)
    @@ 77 :> Local(9)       \* class R as a type argument of an external type
    @@ 79 :> Local(97)      \* a type name with no entry in the item tree
    @@ 80 :> PrimTy         \* T3 names a primitive type
    @@ 81 :> Local(5)       \* c's initializer -> h (not walked)
    @@ 82 :> Local(16)      \* m3 -> trait Tr

\* typeck's method map: the calls bound to a static target, and one
\* dynamically dispatched call.
method_map ==
       51 :> [origin |-> "static", crate |-> local_crate, node |-> 12]
    @@ 54 :> [origin |-> "param",  crate |-> local_crate, node |-> 11]
    @@ 58 :> [origin |-> "static", crate |-> local_crate, node |-> 12]
    @@ 68 :> [origin |-> "static", crate |-> local_crate + 1, node |-> 12]
    @@ 69 :> [origin |-> "static", crate |-> local_crate, node |-> 24]
    @@ 78 :> [origin |-> "static", crate |-> local_crate, node |-> 98]

Modules == {crate_node_id, 3, 4, 7}

(***************************************************************************)
(* The inputs the model ranges over.                                       *)
(***************************************************************************)
\* what a module's export list may name
ExportCands(m) ==
    CASE m = crate_node_id -> {Local(1), Local(3), Extern(5)}
      [] m = 3 -> {Local(8), Local(12)}
      [] m = 7 -> {Local(17), Local(13)}
      [] OTHER -> {Local(40)}

SeqsUpTo(S, n) == UNION {[1..k -> S] : k \in 0..n}

NoEntry     == [present |-> FALSE, exps |-> <<>>]
Entry(exps) == [present |-> TRUE, exps |-> exps]

Entries(m, n) == {NoEntry} \cup {Entry(s) : s \in SeqsUpTo(ExportCands(m), n)}

Table(e0, e3, e4, e7) == (crate_node_id :> e0) @@ (3 :> e3) @@ (4 :> e4) @@ (7 :> e7)

Listed(t) == Len(t[crate_node_id].exps) + Len(t[3].exps) + Len(t[4].exps) + Len(t[7].exps)

ExportTables(n) ==
    {t \in {Table(e0, e3, e4, e7) : e0 \in Entries(crate_node_id, n), e3 \in Entries(3, n),
                                    e4 \in Entries(4, n), e7 \in Entries(7, n)} :
        Listed(t) <= n}

\* Upstream faults: an item left as an unexpanded macro, or a path
\* expression that name resolution left unbound.
\* At most one fault per crate: the first one met ends the run.
MacSites     == {2, 10, 17}
UnboundSites == {50, 57}
Faults       == {{}} \cup {{x} : x \in MacSites \cup UnboundSites}

\* the impls are either plain or generic (impl<T> I, impl<T> J)
ImplTps == {0, 1}

ItemsWith(fault, impl_tps) ==
    [i \in DOMAIN ItemTree |->
        IF i \in fault \cap MacSites THEN ItemLeaf("mac")
        ELSE IF ItemTree[i].kind = "impl" THEN ItemImpl(impl_tps, ItemTree[i].subs)
        ELSE ItemTree[i]]

DefMapWith(fault) ==
    [i \in DOMAIN DefMapFull \ (UnboundSites \cap fault) |-> DefMapFull[i]]

(***************************************************************************)
(* Helpers of the pass.                                                    *)
(***************************************************************************)
NoResult == [ok |-> FALSE, set |-> {}]

Frame(op, id) ==
    [op |-> op, id |-> id, crate |-> local_crate, idx |-> 0, found |-> FALSE]

DefFrame(did) ==
    [op |-> "traverse_def_id", id |-> did.node, crate |-> did.crate,
     idx |-> 0, found |-> FALSE]

Frames(op, ids) == [i \in 1..Len(ids) |-> Frame(op, ids[i])]

Reverse(s) == [i \in 1..Len(s) |-> s[Len(s) + 1 - i]]

RECURSIVE Flatten(_)
Flatten(ss) == IF ss = <<>> THEN <<>> ELSE Head(ss) \o Flatten(Tail(ss))

Range(s) == {s[i] : i \in 1..Len(s)}

\* variant: a pass without the already-marked guard
never_contains(m, id) == FALSE

\* rmap.contains_key(id)
contains_key(m, id) == id \in m

\* variant: an insert that drops what the set held
insert_forgets(m, id) == {id}

\* rmap.insert(id, ())
insert(m, id) == m \cup {id}

\* exp_map2.find(mod_id) is Some(..)
HasEntry(mod_id) == mod_id \in DOMAIN exp_map2 /\ exp_map2[mod_id].present

\* variant: found_export set as soon as the module has an entry
found_export_if_entry(mod_id) == HasEntry(mod_id)

\* let mut found_export = false;
found_export_init(mod_id) == FALSE

\* variant: a flag that only remembers the last entry of the list
found_export_last(found, did) == did.crate = local_crate

\* found_export = true;
found_export_next(found, did) == TRUE

\* variant: a resolver that takes every reference as local
never_external(crate) == FALSE

\* did.crate != local_crate
IsExternal(crate) == crate # local_crate

\* variant: a resolver that ignores foreign items and variants
def_action_items_only(n) ==
    CASE n.node = "item" -> "traverse_public_item"
      [] n.node = "method" -> "traverse_def_id"
      [] OTHER -> "nothing"

\* variant: a resolver that ignores methods
def_action_skips_methods(n) ==
    CASE n.node = "item" -> "traverse_public_item"
      [] n.node \in {"foreign_item", "variant"} -> "insert"
      [] OTHER -> "nothing"

\* the match on the ast_map node in traverse_def_id
def_action(n) ==
    CASE n.node = "item" -> "traverse_public_item"
      [] n.node = "method" -> "traverse_def_id"
      [] n.node \in {"foreign_item", "variant"} -> "insert"
      [] OTHER -> "nothing"

\* variant: a pass that walks every body
always_walked(tps, inline) == TRUE

\* variant: a guard that forgets the type parameters
inline_only(tps, inline) == inline

\* variant: a guard that asks for type parameters and an inline attribute
generic_only(tps, inline) == tps > 0 /\ inline

\* tps.len() > 0u || attr::find_inline_attr(attrs) != attr::ia_none
generic_or_inline(tps, inline) == tps > 0 \/ inline

\* variant: a guard that forgets the impl's type parameters
method_generic_or_inline(impl_tps, m) == m.tps > 0 \/ m.inline

\* the guard of impl methods: the impl's or the method's type parameters,
\* or an inline attribute
impl_method_walked(impl_tps, m) == impl_tps > 0 \/ m.tps > 0 \/ m.inline

\* variant: a dispatch that takes a macro item as a leaf
item_never_fails(n) == FALSE

\* item_mac(*) => fail
item_fails(n) == n.kind = "mac"

def_id_of_def(d) == [crate |-> d.crate, node |-> d.node]

\* variant: a walker that resolves every binding it finds
ty_resolves_all(t) == t.k = "path" /\ t.p_id \in DOMAIN def_map

\* the match on def_map.find(p_id): Some(d), d not a def_prim_ty
ty_resolves(t) ==
    /\ t.k = "path"
    /\ t.p_id \in DOMAIN def_map
    /\ def_map[t.p_id].k # "prim"

\* variant: a walker that takes the type arguments of resolved names only
ty_args_if_resolved(t) ==
    IF t.k = "path" /\ ~ty_resolves(t) THEN <<>> ELSE t.types

\* p.types of a ty_path, the children of any other type expression
ty_args(t) == t.types

\* method_map.find(e.id) is Some({origin: method_static(did), _})
static_target(id) == id \in DOMAIN method_map /\ method_map[id].origin = "static"

\* variant: a walker that skips an unbound path
expr_action_lenient(x) ==
    CASE x.e = "path" /\ x.id \in DOMAIN def_map -> "traverse_def_id"
      [] x.e = "field" /\ static_target(x.id) -> "traverse_method"
      [] OTHER -> "nothing"

\* what traverse_expr does with an expression
expr_action(x) ==
    CASE x.e = "path" ->
            IF x.id \in DOMAIN def_map THEN "traverse_def_id" ELSE "span_bug"
      [] x.e = "field" /\ static_target(x.id) -> "traverse_method"
      [] OTHER -> "nothing"

\* variant: a walker with the default visit_item, which passes over an
\* item declared in a body
nested_item_skipped(x) == <<>>

\* traverse_item: traverse_public_item(cx, i)
nested_item_frames(x) == <<Frame("traverse_public_item", x.id)>>

\* the items of a module (the crate's top module is not an item)
ModItems(mod_id) ==
    IF mod_id = crate_node_id THEN crate_mod ELSE tcx_items[mod_id].subs

\* the item declarations a block holds as statements, which the default
\* visitor reaches without entering an expression
StmtItems(blk) ==
    LET sel == SelectSeq(blk, LAMBDA x : x.e = "item" /\ ~x.in_expr)
    IN  [i \in 1..Len(sel) |-> sel[i].id]

\* the items visit::visit_item descends into when expressions are skipped
VisitChildren(i) ==
    LET n == tcx_items[i]
        bodies(ids) == Flatten([k \in 1..Len(ids) |-> StmtItems(tcx_items[ids[k]].body)])
    IN  CASE n.kind = "mod"   -> n.subs
          [] n.kind = "fn"    -> StmtItems(n.body)
          [] n.kind = "impl"  -> bodies(n.subs)
          [] n.kind = "class" -> bodies(n.subs \o n.dtor)
          [] OTHER            -> <<>>

\* variant: a retention pass that forgets the destructors
retained_impls_only(n) == n.kind = "impl"

\* the match of the retention pass: classes with a destructor, and impls
retained(n) ==
    \/ n.kind = "class" /\ n.dtor # <<>>
    \/ n.kind = "impl"

(***************************************************************************)
(* Actions.  Each runs the function, or the turn of a loop, that the top   *)
(* frame names.  The log records: <<"item", id>> the dispatch of           *)
(* traverse_public_item on id, <<"body", id>> the walk of id's body,       *)
(* <<"ty", id>> the walk of a type expression, <<"def", id>> and           *)
(* <<"extern", id>> the resolution of a local and of an external           *)
(* reference, <<"implicit", id>> a module whose items were all taken as    *)
(* public, <<"retain", 0>> the start of the retention pass.                *)
(***************************************************************************)
top  == Head(stack)
rest == Tail(stack)

Running(op) ==
    /\ pc = "running"
    /\ stack # <<>>
    /\ Len(stack) <= MaxStack
    /\ top.op = op

Push(frames) == stack' = frames \o rest

\* a run of rmap.insert calls
RECURSIVE insert_each(_, _)
insert_each(m, ids) ==
    IF ids = <<>> THEN m ELSE insert_each(insert(m, Head(ids)), Tail(ids))

Step(ids, events) ==
    /\ rmap' = insert_each(rmap, ids)
    /\ inserted' = Range(ids)
    /\ log' = log \o events
    /\ UNCHANGED <<pc, result, inputs>>

Quiet == Step(<<>>, <<>>)

\* fail / span_bug: the task unwinds, nothing is returned
Abort(ids, events) ==
    /\ pc' = "aborted"
    /\ stack' = <<>>
    /\ result' = NoResult
    /\ rmap' = insert_each(rmap, ids)
    /\ inserted' = Range(ids)
    /\ log' = log \o events
    /\ UNCHANGED inputs

FindReachable ==
    /\ pc = "start"
    /\ pc' = "running"
    /\ rmap' = {}
    /\ stack' = <<Frame("traverse_public_mod", crate_node_id),
                  Frame("traverse_all_resources_and_impls", crate_node_id)>>
    /\ inserted' = {}
    /\ UNCHANGED <<result, log, inputs>>

Return ==
    /\ pc = "running"
    /\ stack = <<>>
    /\ pc' = "done"
    /\ result' = [ok |-> TRUE, set |-> rmap]
    /\ inserted' = {}
    /\ UNCHANGED <<rmap, stack, log, inputs>>

\* one turn of the loop over the export list, or the return of found_export
TraverseExports ==
    /\ Running("traverse_exports")
    /\ IF HasEntry(top.id) /\ top.idx <= Len(exp_map2[top.id].exps)
       THEN Push(<<DefFrame(exp_map2[top.id].exps[top.idx]),
                   [top EXCEPT !.idx = @ + 1,
                               !.found = found_export_next(
                                   @, exp_map2[top.id].exps[top.idx])]>>)
       ELSE stack' = <<[rest[1] EXCEPT !.found = top.found]>> \o Tail(rest)
    /\ Quiet

ExportsFrame(mod_id) ==
    [Frame("traverse_exports", mod_id) EXCEPT !.idx = 1,
                                              !.found = found_export_init(mod_id)]

TraverseDefId ==
    /\ Running("traverse_def_id")
    /\ IF IsExternal(top.crate)
       THEN Push(<<>>) /\ Step(<<>>, <<<<"extern", top.id>>>>)
       ELSE IF top.id \notin DOMAIN tcx_items
       THEN Push(<<>>) /\ Step(<<>>, <<<<"def", top.id>>>>)
       ELSE LET n == tcx_items[top.id]
                a == def_action(n)
            IN  CASE a = "traverse_public_item" ->
                        /\ Push(<<Frame("traverse_public_item", top.id)>>)
                        /\ Step(<<>>, <<<<"def", top.id>>>>)
                  [] a = "traverse_def_id" ->
                        /\ Push(<<DefFrame([crate |-> local_crate, node |-> n.parent])>>)
                        /\ Step(<<>>, <<<<"def", top.id>>>>)
                  [] a = "insert" ->
                        /\ Push(<<>>)
                        /\ Step(<<top.id>>, <<<<"def", top.id>>>>)
                  [] OTHER ->
                        /\ Push(<<>>)
                        /\ Step(<<>>, <<<<"def", top.id>>>>)

\* traverse_exports is called first; the loop over m.items runs on return
TraversePublicMod ==
    /\ Running("traverse_public_mod")
    /\ IF top.idx = 0
       THEN Push(<<ExportsFrame(top.id), [top EXCEPT !.idx = 1]>>) /\ Quiet
       ELSE IF ~top.found
            THEN /\ Push(Frames("traverse_public_item", ModItems(top.id)))
                 /\ Step(<<>>, <<<<"implicit", top.id>>>>)
            ELSE Push(<<>>) /\ Quiet

\* variant: a dispatch that walks the initializer of a constant
leaf_walks_initializer(id, n) ==
    IF n.body # <<>> THEN <<Frame("traverse_inline_body", id)>> ELSE <<>>

\* item_const(*) | item_enum(*) | item_trait(*) => ()
leaf_dispatch(id, n) == <<>>

item_dispatch(id, n) ==
    CASE n.kind = "mod" -> <<Frame("traverse_public_mod", id)>>
      [] n.kind = "foreign_mod" ->
            <<ExportsFrame(id), Frame("item_foreign_mod", id)>>
      [] n.kind = "fn" ->
            IF generic_or_inline(n.tps, n.inline)
            THEN <<Frame("traverse_inline_body", id)>> ELSE <<>>
      [] n.kind = "impl" -> Frames("item_impl", n.subs)
      [] n.kind = "class" ->
            Frames("item_class_dtor", n.dtor) \o Frames("item_class_method", n.subs)
      [] n.kind = "ty" -> Frames("traverse_ty", n.ty)
      [] n.kind \in {"const", "enum", "trait"} -> leaf_dispatch(id, n)
      [] OTHER -> <<>>

TraversePublicItem ==
    /\ Running("traverse_public_item")
    /\ LET n == tcx_items[top.id] IN
       IF contains_key(rmap, top.id)
       THEN Push(<<>>) /\ Quiet
       ELSE IF item_fails(n)
            THEN Abort(<<top.id>>, <<<<"item", top.id>>>>)
            ELSE /\ Push(item_dispatch(top.id, n))
                 /\ Step(<<top.id>>, <<<<"item", top.id>>>>)

\* item_foreign_mod, after traverse_exports returned
ItemForeignModItems ==
    /\ Running("item_foreign_mod")
    /\ Push(<<>>)
    /\ IF ~top.found
       THEN Step(tcx_items[top.id].subs, <<<<"implicit", top.id>>>>)
       ELSE Quiet

\* one turn of the loop over an impl's methods
ItemImplMethod ==
    /\ Running("item_impl")
    /\ LET m == tcx_items[top.id] IN
       IF impl_method_walked(tcx_items[m.parent].tps, m)
       THEN Push(<<Frame("traverse_inline_body", top.id)>>) /\ Step(<<top.id>>, <<>>)
       ELSE Push(<<>>) /\ Quiet

\* the destructor of a class
ItemClassDtor ==
    /\ Running("item_class_dtor")
    /\ LET d == tcx_items[top.id] IN
       IF generic_or_inline(tcx_items[d.parent].tps, d.inline)
       THEN Push(<<Frame("traverse_inline_body", top.id)>>)
       ELSE Push(<<>>)
    /\ Step(<<top.id>>, <<>>)

\* one turn of the loop over a class's methods
ItemClassMethod ==
    /\ Running("item_class_method")
    /\ LET m == tcx_items[top.id] IN
       IF generic_or_inline(tcx_items[m.parent].tps, m.inline)
       THEN Push(<<Frame("traverse_inline_body", top.id)>>)
       ELSE Push(<<>>)
    /\ Step(<<top.id>>, <<>>)

\* visit_block is entered, and left once every element was visited
TraverseInlineBody ==
    /\ Running("traverse_inline_body")
    /\ \/ /\ top.idx = 0
          /\ Push(<<[top EXCEPT !.idx = 1]>>)
          /\ Step(<<>>, <<<<"body", top.id>>>>)
       \/ /\ top.idx > Len(tcx_items[top.id].body)
          /\ Push(<<>>)
          /\ Quiet

Elem == tcx_items[top.id].body[top.idx]

AtElem(kinds) ==
    /\ Running("traverse_inline_body")
    /\ top.idx >= 1
    /\ top.idx <= Len(tcx_items[top.id].body)
    /\ Elem.e \in kinds

Advanced == [top EXCEPT !.idx = @ + 1]

TraverseExpr ==
    /\ AtElem({"path", "field", "other"})
    /\ LET a == expr_action(Elem) IN
       CASE a = "span_bug" -> Abort(<<>>, <<>>)
         [] a = "traverse_def_id" ->
               /\ Push(<<DefFrame(def_id_of_def(def_map[Elem.id])), Advanced>>)
               /\ Quiet
         [] a = "traverse_method" ->
               /\ Push(<<DefFrame(def_id_of_def(method_map[Elem.id])), Advanced>>)
               /\ Quiet
         [] OTHER -> Push(<<Advanced>>) /\ Quiet

TraverseItem ==
    /\ AtElem({"item"})
    /\ Push(nested_item_frames(Elem) \o <<Advanced>>)
    /\ Quiet

TraverseTy ==
    /\ Running("traverse_ty")
    /\ LET t == TyNodes[top.id] IN
       IF contains_key(rmap, top.id)
       THEN Push(<<>>) /\ Quiet
       ELSE /\ Step(<<top.id>>, <<<<"ty", top.id>>>>)
            /\ IF ty_resolves(t)
               THEN Push(<<DefFrame(def_id_of_def(def_map[t.p_id]))>>
                         \o Frames("traverse_ty", ty_args(t)))
               ELSE Push(Frames("traverse_ty", ty_args(t)))

TraverseAllResourcesAndImpls ==
    /\ Running("traverse_all_resources_and_impls")
    /\ Push(Frames("visit_item", crate_mod))
    /\ Step(<<>>, <<<<"retain", 0>>>>)

\* the visit_item closure of the retention pass: the nested items first,
\* then the match on the item itself
VisitItem ==
    /\ Running("visit_item")
    /\ IF top.idx = 0
       THEN Push(Frames("visit_item", VisitChildren(top.id))
                 \o <<[top EXCEPT !.idx = 1]>>)
       ELSE IF retained(tcx_items[top.id])
            THEN Push(<<Frame("traverse_public_item", top.id)>>)
            ELSE Push(<<>>)
    /\ Quiet

\* the pass is run again, on the other export table
Rerun ==
    /\ pc \in {"done", "aborted"}
    /\ run = 1
    /\ run' = 2
    /\ prev' = result
    /\ exp_map2' = exp_other
    /\ exp_other' = exp_map2
    /\ pc' = "start"
    /\ rmap' = {}
    /\ stack' = <<>>
    /\ result' = NoResult
    /\ inserted' = {}
    /\ log' = <<>>
    /\ UNCHANGED <<tcx_items, def_map>>

\* the same crate with every list in the opposite order: the items of a
\* module, the methods of an impl or class, the elements of a body
Reordered(n) == [n EXCEPT !.subs = Reverse(@), !.body = Reverse(@)]

ReversedTable(t) == [m \in DOMAIN t |-> [t[m] EXCEPT !.exps = Reverse(@)]]

\* the pass is run again on the same inputs, which it meets in the
\* opposite order
RerunReordered ==
    /\ pc \in {"done", "aborted"}
    /\ run = 1
    /\ run' = 2
    /\ prev' = result
    /\ exp_map2' = ReversedTable(exp_map2)
    /\ exp_other' = exp_map2
    /\ tcx_items' = [i \in DOMAIN tcx_items |-> Reordered(tcx_items[i])]
    /\ pc' = "start"
    /\ rmap' = {}
    /\ stack' = <<>>
    /\ result' = NoResult
    /\ inserted' = {}
    /\ log' = <<>>
    /\ UNCHANGED def_map

(***************************************************************************)
(* Specifications.                                                         *)
(***************************************************************************)
InitRun ==
    /\ rmap = {}
    /\ stack = <<>>
    /\ pc = "start"
    /\ result = NoResult
    /\ inserted = {}
    /\ log = <<>>
    /\ run = 1
    /\ prev = NoResult

\* One run of the pass, on any export table and with at most one fault.
Init ==
    /\ InitRun
    /\ \E fault \in Faults, impl_tps \in ImplTps :
          /\ tcx_items = ItemsWith(fault, impl_tps)
          /\ def_map = DefMapWith(fault)
    /\ exp_map2 \in ExportTables(MaxExports)
    /\ exp_other = exp_map2

Pass ==
    \/ FindReachable
    \/ TraverseExports
    \/ TraverseDefId
    \/ TraversePublicMod
    \/ TraversePublicItem
    \/ ItemForeignModItems
    \/ ItemImplMethod
    \/ ItemClassDtor
    \/ ItemClassMethod
    \/ TraverseInlineBody
    \/ TraverseExpr
    \/ TraverseItem
    \/ TraverseTy
    \/ TraverseAllResourcesAndImpls
    \/ VisitItem
    \/ Return

Next == Pass

Spec == Init /\ [][Next]_vars

\* The pass is one thread that always takes its next step.  The runs that
\* end early are those of a macro item and of an unbound path.
FairFaults == {{}, {10}, {50}}

InitFair ==
    /\ InitRun
    /\ \E fault \in FairFaults, impl_tps \in ImplTps :
          /\ tcx_items = ItemsWith(fault, impl_tps)
          /\ def_map = DefMapWith(fault)
    /\ exp_map2 \in ExportTables(MaxExports)
    /\ exp_other = exp_map2

FairSpec == InitFair /\ [][Next]_vars /\ WF_vars(Next)

\* Two runs that differ in the entry of one module m: the first run's table
\* gives m an entry (empty, or listing exactly m's items, in either order),
\* the second run's table gives m none.
ChildRefs(m) ==
    LET items == IF m = crate_node_id THEN crate_mod ELSE ItemTree[m].subs
    IN  [i \in 1..Len(items) |-> Local(items[i])]

PairEntries(m) == {Entry(<<>>), Entry(ChildRefs(m)), Entry(Reverse(ChildRefs(m)))}

PairFaults == {{}, {17}, {50}}

InitPair ==
    /\ InitRun
    /\ \E fault \in PairFaults, impl_tps \in ImplTps :
          /\ tcx_items = ItemsWith(fault, impl_tps)
          /\ def_map = DefMapWith(fault)
    /\ \E base \in ExportTables(MaxPairExports), m \in Modules :
          \E e \in PairEntries(m) :
             /\ exp_map2 = [base EXCEPT ![m] = e]
             /\ exp_other = [base EXCEPT ![m] = NoEntry]

NextPair == Pass \/ Rerun

PairSpec == InitPair /\ [][NextPair]_vars

\* Two runs over the same inputs, the second one meeting every list of
\* them in the opposite order.
OrderFaults == {{}, {10}, {50}}

InitOrder ==
    /\ InitRun
    /\ \E fault \in OrderFaults, impl_tps \in ImplTps :
          /\ tcx_items = ItemsWith(fault, impl_tps)
          /\ def_map = DefMapWith(fault)
    /\ exp_map2 \in ExportTables(MaxExports)
    /\ exp_other = exp_map2

NextOrder == Pass \/ RerunReordered

OrderSpec == InitOrder /\ [][NextOrder]_vars

StackWithinBound == Len(stack) <= MaxStack

(***************************************************************************)
(* Vocabulary of the properties.                                           *)
(***************************************************************************)
Finished == pc \in {"done", "aborted"}
Done     == pc = "done"

Events(tag) == {log[i][2] : i \in {j \in 1..Len(log) : log[j][1] = tag}}

\* the items traverse_public_item dispatched on, the bodies that were walked
Dispatched == Events("item")
Walked     == Events("body")

\* the items dispatched before the retention pass began
ExportPassItems ==
    {log[i][2] : i \in {j \in 1..Len(log) :
        log[j][1] = "item" /\ \A k \in 1..j : log[k][1] # "retain"}}

IsItem(i, kind) ==
    i \in DOMAIN tcx_items /\ tcx_items[i].node = "item" /\ tcx_items[i].kind = kind

GenericFn(i) == IsItem(i, "fn") /\ tcx_items[i].tps > 0
PlainFn(i)   == IsItem(i, "fn") /\ tcx_items[i].tps = 0 /\ ~tcx_items[i].inline

Exports(m) == exp_map2[m].exps

ExportListed(i) ==
    \E m \in Modules : exp_map2[m].present /\ Local(i) \in Range(Exports(m))

\* the local definitions the symbol references of b's body are bound to
PathRefs(b) ==
    {def_map[x.id].node :
        x \in {y \in Range(tcx_items[b].body) :
                  /\ y.e = "path"
                  /\ y.id \in DOMAIN def_map
                  /\ def_map[y.id].crate = local_crate}}

\* the static method calls of b's body that name a method of this crate
StaticCalls(b) ==
    {method_map[x.id].node :
        x \in {y \in Range(tcx_items[b].body) :
                  /\ y.e = "field"
                  /\ y.id \in DOMAIN method_map
                  /\ method_map[y.id].origin = "static"
                  /\ method_map[y.id].crate = local_crate
                  /\ method_map[y.id].node \in DOMAIN tcx_items
                  /\ tcx_items[method_map[y.id].node].node = "method"}}

ParentMods(i) == {m \in Modules : i \in Range(ModItems(m))}

\* the items of the module tree below a list of items
RECURSIVE ModTreeItems(_)
ModTreeItems(ids) ==
    IF ids = <<>> THEN {}
    ELSE {Head(ids)}
         \cup (IF tcx_items[Head(ids)].kind = "mod"
               THEN ModTreeItems(tcx_items[Head(ids)].subs) ELSE {})
         \cup ModTreeItems(Tail(ids))

\* the second run's table differs from the first run's in m alone, which
\* had an entry in the first run and has none in the second
PairOn(m) ==
    /\ run = 2
    /\ exp_other[m].present
    /\ ~exp_map2[m].present
    /\ \A o \in Modules \ {m} : exp_other[o] = exp_map2[o]

ListsItemsOf(exps, m) ==
    /\ Len(exps) = Len(ChildRefs(m))
    /\ Range(exps) = Range(ChildRefs(m))

(***************************************************************************)
(* C1.                                                                     *)
(***************************************************************************)
C1_GReached ==
    \A f \in ExportPassItems : GenericFn(f) =>
        \A g \in PathRefs(f) : (PlainFn(g) /\ ~ExportListed(g)) => g \in result.set

C1_Idle(h) ==
    /\ PlainFn(h)
    /\ ~ExportListed(h)
    /\ \A b \in Walked : h \notin PathRefs(b)

\* C1 as stated: once the pass completed, a plain unexported function g
\* that a generic function f reached by the export pass refers to is in the
\* set, and a plain unexported function h that no walked body refers to,
\* in a module with an export entry that omits it, is not.
C1_Original ==
    Done =>
        /\ C1_GReached
        /\ \A h \in DOMAIN tcx_items :
              (C1_Idle(h) /\ \E m \in ParentMods(h) : exp_map2[m].present)
                  => h \notin result.set

\* C1 amended: the same, for an h that is an item of a module whose export
\* entry is not empty and omits it.
C1_Transitivity ==
    Done =>
        /\ C1_GReached
        /\ \A h \in DOMAIN tcx_items :
              (C1_Idle(h) /\ \E m \in ParentMods(h) :
                                exp_map2[m].present /\ Exports(m) # <<>>)
                  => h \notin result.set

\* f is taken as public, walks to g; module A exports f2 alone, so g is
\* reached by the reference only and h is not reached.
C1_Witness ==
    /\ Done
    /\ 1 \in ExportPassItems /\ GenericFn(1)
    /\ 2 \in PathRefs(1) /\ PlainFn(2) /\ ~ExportListed(2)
    /\ 2 \in result.set
    /\ 3 \in result.set /\ exp_map2[3].present /\ Exports(3) # <<>>
    /\ C1_Idle(5) /\ 5 \notin result.set

(***************************************************************************)
(* C2.                                                                     *)
(***************************************************************************)
\* C2: once the pass completed, every impl item and every class with a
\* destructor of the module tree is in the set, with the destructor's id,
\* whatever the export table.
C2_Retention ==
    Done =>
        \A i \in ModTreeItems(crate_mod) :
            /\ tcx_items[i].kind = "impl" => i \in result.set
            /\ (tcx_items[i].kind = "class" /\ tcx_items[i].dtor # <<>>) =>
                   i \in result.set /\ Range(tcx_items[i].dtor) \subseteq result.set

\* The crate exports nothing of its own, so the export pass reaches no item;
\* impl I and class R, two modules down, are in the set with R's destructor.
C2_Witness ==
    /\ Done
    /\ Exports(crate_node_id) = <<Extern(5)>>
    /\ ExportPassItems = {}
    /\ {6, 9, 21} \subseteq result.set

(***************************************************************************)
(* C3.                                                                     *)
(***************************************************************************)
\* C3 as stated: a module whose export entry is empty has explicit
\* exports, so its items are never taken as implicitly public.
C3_Original ==
    \A m \in Modules :
        (exp_map2[m].present /\ Exports(m) = <<>>) => m \notin Events("implicit")

\* C3 amended: a traversed module whose export entry is empty is treated
\* as one with no entry: its items are all taken as public, and the run
\* ends as the run on the table without that entry does.
C3_EmptyEntryIsImplicit ==
    /\ Done =>
          \A m \in Modules :
              (/\ exp_map2[m].present
               /\ Exports(m) = <<>>
               /\ (m = crate_node_id \/ m \in Dispatched))
                  => /\ m \in Events("implicit")
                     /\ Range(ModItems(m)) \subseteq result.set
    /\ \A m \in Modules :
          (Finished /\ PairOn(m) /\ exp_other[m].exps = <<>>) => result = prev

C3_Witness ==
    /\ Done
    /\ PairOn(7) /\ exp_other[7].exps = <<>>
    /\ 7 \in Events("implicit")
    /\ prev.ok /\ result = prev
    /\ Range(ModItems(7)) \subseteq result.set

(***************************************************************************)
(* C4.                                                                     *)
(***************************************************************************)
\* C4: a run whose table lists exactly the items of module m in m's entry
\* ends as the run on the same table without an entry for m.
C4_ExplicitEqualsImplicit ==
    \A m \in Modules :
        (Finished /\ PairOn(m) /\ ListsItemsOf(exp_other[m].exps, m))
            => result = prev

\* Module B listed its items in reverse order in the first run.
C4_Witness ==
    /\ Done
    /\ PairOn(7) /\ ListsItemsOf(exp_other[7].exps, 7)
    /\ exp_other[7].exps # ChildRefs(7)
    /\ prev.ok /\ result = prev
    /\ Range(ModItems(7)) \subseteq result.set

(***************************************************************************)
(* C5.                                                                     *)
(***************************************************************************)
\* C5: no step removes an identifier from the set, and a step that inserts
\* only identifiers already present leaves the set as it was.
C5_Monotonic ==
    [][/\ rmap \subseteq rmap'
       /\ inserted' \subseteq rmap'
       /\ (inserted' \subseteq rmap => rmap' = rmap)]_vars

\* A foreign item exported twice: the second insert finds it present.
C5_Witness ==
    /\ pc = "running"
    /\ inserted = {40}
    /\ Len(log) >= 2
    /\ log[Len(log)] = <<"def", 40>>
    /\ \E j \in 1..(Len(log) - 1) : log[j] = <<"def", 40>>
    /\ Cardinality(rmap) >= 2

(***************************************************************************)
(* C6.                                                                     *)
(***************************************************************************)
\* C6: every run of the pass ends, returning the set or aborting.
C6_Terminates == <>(pc \in {"done", "aborted"})

\* The pass completed on the crate whose f and f2 call each other, whose
\* generic method m1 calls a method of its own impl, whose f declares n
\* calling f, and whose aliases T1 and T2 name each other.
C6_Witness ==
    /\ Done
    /\ {1, 8, 10, 11} \subseteq Walked
    /\ {13, 14} \subseteq Dispatched
    /\ {30, 34} \subseteq Events("ty")

(***************************************************************************)
(* C7.                                                                     *)
(***************************************************************************)
HasUnbound(b) ==
    \E x \in Range(tcx_items[b].body) : x.e = "path" /\ x.id \notin DOMAIN def_map

WalkedTo(b, id) ==
    \E i \in 1..Len(stack) :
        /\ stack[i].op = "traverse_inline_body"
        /\ stack[i].id = b
        /\ \E k \in 1..(stack[i].idx - 1) :
              k <= Len(tcx_items[b].body) /\ tcx_items[b].body[k].id = id

\* C7: a run that walks a body holding an unbound symbol reference does
\* not complete and hands no set to its caller; once the walk is past the
\* reference the run has aborted.
C7_UnboundAborts ==
    /\ (\E b \in Walked : HasUnbound(b)) => (pc # "done" /\ ~result.ok)
    /\ \A b \in Walked :
          \A x \in Range(tcx_items[b].body) :
              (x.e = "path" /\ x.id \notin DOMAIN def_map) => ~WalkedTo(b, x.id)

C7_Witness ==
    /\ pc = "aborted"
    /\ \E b \in Walked : HasUnbound(b)
    /\ rmap # {}
    /\ result = NoResult

(***************************************************************************)
(* C8.                                                                     *)
(***************************************************************************)
\* C8: the dispatch on a macro item is the last thing the run does: the
\* run has aborted, returns no set, and nothing is left to run.
C8_MacroAborts ==
    \A j \in 1..Len(log) :
        (log[j][1] = "item" /\ tcx_items[log[j][2]].kind = "mac") =>
            /\ pc = "aborted"
            /\ result = NoResult
            /\ stack = <<>>
            /\ j = Len(log)

\* The macro item was met as a declaration nested in f's body, before the
\* retention pass.
C8_Witness ==
    /\ pc = "aborted"
    /\ log # <<>>
    /\ log[Len(log)] = <<"item", 10>>
    /\ tcx_items[10].kind = "mac"
    /\ 1 \in Walked
    /\ "retain" \notin {log[j][1] : j \in 1..Len(log)}

(***************************************************************************)
(* C9.                                                                     *)
(***************************************************************************)
\* C9: resolving a reference into another crate, or a local id the item
\* tree has no entry for, changes nothing but the call stack, from which
\* the resolver returns: the set is the same and the run goes on.
C9_BenignAbsence ==
    [][(/\ pc = "running"
        /\ stack # <<>>
        /\ Head(stack).op = "traverse_def_id"
        /\ (Head(stack).crate # local_crate \/ Head(stack).id \notin DOMAIN tcx_items))
          => (rmap' = rmap /\ pc' = "running" /\ stack' = Tail(stack)
              /\ result' = result)]_vars

\* External references from an export entry (5), a path (7), a static
\* method call (12) and a named type (3), and ids without an item from a
\* path (99), a method call (98) and a named type (97), in a completed run.
C9_Witness ==
    /\ Done
    /\ {3, 5, 7, 12} \subseteq Events("extern")
    /\ {97, 98, 99} \subseteq Events("def")

(***************************************************************************)
(* C10.                                                                    *)
(***************************************************************************)
\* C10 as stated: once the pass completed, the target of every static
\* method call of a walked body is in the set.
C10_Original ==
    Done => \A b \in Walked : StaticCalls(b) \subseteq result.set

\* C10 amended: the item owning the target (its impl or class) is in the
\* set; the target itself is when its owner is a class, or the impl or the
\* method has type parameters, or the method is inline.
C10_StaticTargets ==
    Done =>
        \A b \in Walked : \A t \in StaticCalls(b) :
            LET owner == tcx_items[t].parent IN
            /\ owner \in result.set
            /\ (\/ tcx_items[owner].kind = "class"
                \/ tcx_items[owner].tps > 0
                \/ tcx_items[t].tps > 0
                \/ tcx_items[t].inline) => t \in result.set

\* f alone is exported; it calls m2 of impl I and method 24 of class R3,
\* which nothing else reaches.
C10_Witness ==
    /\ Done
    /\ {12, 24} \subseteq StaticCalls(1) /\ 1 \in Walked
    /\ 7 \notin result.set
    /\ {6, 18, 24} \subseteq result.set
    /\ tcx_items[6].tps = 0
    /\ 12 \notin result.set

(***************************************************************************)
(* C11.                                                                    *)
(***************************************************************************)
\* C11: a second run over the same item tree, export table and bindings,
\* which meets the export entries, the items of every module, the methods,
\* the nested items and the references of every body in the opposite
\* order, ends as the first run did: with the same set, or aborted too.
C11_OrderIndependent ==
    (Finished /\ run = 2 /\ exp_map2 = ReversedTable(exp_other))
        => result = prev

\* The crate exports f and module A, in this order in the first run; both
\* runs walked f, f2 with its nested class, and all of A and B.
C11_Witness ==
    /\ Done
    /\ run = 2
    /\ exp_other[crate_node_id].exps = <<Local(1), Local(3)>>
    /\ Exports(crate_node_id) = <<Local(3), Local(1)>>
    /\ tcx_items[3].subs = Reverse(ItemTree[3].subs)
    /\ {1, 8, 23} \subseteq Walked
    /\ {3, 7} \subseteq Events("implicit")
    /\ prev.ok /\ result = prev
    /\ Cardinality(result.set) > 20

(***************************************************************************)
(* C12.                                                                    *)
(***************************************************************************)
\* a named-type reference bound to a primitive type
PrimBound(t) ==
    /\ TyNodes[t].k = "path"
    /\ TyNodes[t].p_id \in DOMAIN def_map
    /\ def_map[TyNodes[t].p_id].k = "prim"

\* type a = prim
PrimAlias(a) ==
    /\ IsItem(a, "ty")
    /\ \A t \in Range(tcx_items[a].ty) : PrimBound(t) /\ TyNodes[t].types = <<>>

C12_Step ==
    (pc = "running" /\ stack # <<>>) =>
        LET fr == Head(stack) IN
        /\ (fr.op = "traverse_ty" /\ PrimBound(fr.id) /\ fr.id \notin rmap) =>
              /\ rmap' = rmap \cup {fr.id}
              /\ stack' = Frames("traverse_ty", TyNodes[fr.id].types) \o Tail(stack)
              /\ log' = Append(log, <<"ty", fr.id>>)
              /\ pc' = "running"
        /\ (fr.op = "traverse_public_item" /\ PrimAlias(fr.id) /\ fr.id \notin rmap) =>
              /\ rmap' = rmap \cup {fr.id}
              /\ stack' = Frames("traverse_ty", tcx_items[fr.id].ty) \o Tail(stack)
              /\ pc' = "running"

\* C12: the walk of a named-type reference bound to a primitive type marks
\* the type node and goes on to its type arguments without calling the
\* resolver, and the dispatch on an alias of a primitive type marks the
\* alias and walks its type expression: the two steps add the alias's id
\* and its type node's id, and nothing else.
C12_PrimitiveAlias == [][C12_Step]_vars

\* T3 = prim was just traversed: the alias and its type node are marked,
\* and the walk returned to the loop over module B's items.
C12_Witness ==
    /\ pc = "running"
    /\ Len(log) >= 2
    /\ log[Len(log) - 1] = <<"item", 25>>
    /\ log[Len(log)] = <<"ty", 39>>
    /\ PrimAlias(25)
    /\ inserted = {39}
    /\ {25, 39} \subseteq rmap
    /\ 0 \notin Events("def")
    /\ stack # <<>> => Head(stack).op # "traverse_def_id"

(***************************************************************************)
(* C13.                                                                    *)
(***************************************************************************)
\* i has type parameters or an inline attribute
GenericOrInline(i) == tcx_items[i].tps > 0 \/ tcx_items[i].inline

LastEvent == log[Len(log)]

C13_Bodies ==
    /\ \A i \in Walked : IsItem(i, "fn") => GenericOrInline(i)
    /\ Finished =>
          \A i \in Dispatched : (IsItem(i, "fn") /\ GenericOrInline(i)) => i \in Walked
    /\ pc = "aborted" =>
          \/ \E b \in Walked : HasUnbound(b)
          \/ log # <<>> /\ LastEvent[1] = "item" /\ tcx_items[LastEvent[2]].kind = "mac"

C13_Step ==
    (/\ pc = "running"
     /\ stack # <<>>
     /\ Head(stack).op = "traverse_public_item"
     /\ PlainFn(Head(stack).id)
     /\ Head(stack).id \notin rmap)
        => /\ rmap' = rmap \cup {Head(stack).id}
           /\ stack' = Tail(stack)
           /\ pc' = "running"

\* C13: a function's body is walked exactly when the function has type
\* parameters or an inline attribute; the dispatch on a function with
\* neither marks the function and returns, so it reaches nothing from the
\* body, and a run aborts only on a macro item or in a walked body.
C13_FnBodies == []C13_Bodies /\ [][C13_Step]_vars

\* f alone is exported: f and f2 were walked; g was marked and not walked,
\* the unbound path in g's body did not stop the run, and h, which only
\* g's body names, was not reached.
C13_Witness ==
    /\ Done
    /\ {1, 8} \subseteq Walked
    /\ GenericFn(1) /\ tcx_items[8].tps = 0 /\ tcx_items[8].inline
    /\ 2 \in Dispatched /\ PlainFn(2) /\ 2 \notin Walked
    /\ HasUnbound(2)
    /\ 5 \in PathRefs(2)
    /\ {1, 2, 8} \subseteq result.set
    /\ 5 \notin result.set

(***************************************************************************)
(* C14.                                                                    *)
(***************************************************************************)
\* C14 as stated: once the pass completed, every method of an impl that
\* Item Traversal dispatched on is in the set.
C14_Original ==
    Done =>
        \A i \in Dispatched :
            IsItem(i, "impl") => Range(tcx_items[i].subs) \subseteq result.set

\* one of the three conditions of an impl method holds
ImplMethodGuard(i, m) ==
    tcx_items[i].tps > 0 \/ tcx_items[m].tps > 0 \/ tcx_items[m].inline

\* C14 amended: a method of a dispatched impl is in the set exactly when
\* the impl has type parameters, or the method has, or the method is
\* inline, and exactly then its body is walked; a method failing all three
\* is never marked.
C14_ImplMethods ==
    /\ LET walked == Walked
           dispatched == Dispatched
       IN  \A m \in (rmap \cup walked) \cap DOMAIN tcx_items :
               LET i == tcx_items[m].parent IN
               (tcx_items[m].node = "method" /\ IsItem(i, "impl")) =>
                   (i \in dispatched /\ ImplMethodGuard(i, m))
    /\ Done =>
          \A i \in Dispatched : IsItem(i, "impl") =>
              \A m \in Range(tcx_items[i].subs) :
                  ImplMethodGuard(i, m) => (m \in result.set /\ m \in Walked)

\* Module A exports m2 of the plain impl I: the impl was dispatched on
\* through the method, its generic m1 was marked and walked, and m2, which
\* fails all three conditions, was neither.
C14_Witness ==
    /\ Done
    /\ Local(12) \in Range(Exports(3))
    /\ 12 \in Events("def")
    /\ 6 \in ExportPassItems
    /\ tcx_items[6].tps = 0
    /\ tcx_items[12].tps = 0 /\ ~tcx_items[12].inline
    /\ 11 \in result.set /\ 11 \in Walked
    /\ 12 \notin result.set /\ 12 \notin Walked

(***************************************************************************)
(* C15.                                                                    *)
(***************************************************************************)
\* the destructor, if any, and the methods of class c
ClassMembers(c) == Range(tcx_items[c].dtor) \cup Range(tcx_items[c].subs)

\* the class has type parameters or the member is inline
MemberGuard(c, x) == tcx_items[c].tps > 0 \/ tcx_items[x].inline

\* C15: once the pass completed, the destructor and every method of a
\* class that Item Traversal dispatched on are in the set; the body of a
\* destructor or method is walked exactly when the class has type
\* parameters or that member is inline.
C15_Classes ==
    /\ LET dispatched == Dispatched
       IN  \A x \in Walked :
               LET c == tcx_items[x].parent IN
               (tcx_items[x].node \in {"method", "dtor"} /\ IsItem(c, "class")) =>
                   (c \in dispatched /\ MemberGuard(c, x))
    /\ Done =>
          \A c \in Dispatched : IsItem(c, "class") =>
              \A x \in ClassMembers(c) :
                  /\ x \in result.set
                  /\ MemberGuard(c, x) => x \in Walked

\* f alone is exported.  Class R: the destructor is marked and not walked,
\* the inline method is marked and walked.  Class R2<T>: the destructor,
\* not inline, is walked.  Class R3: its plain method is marked only.
C15_Witness ==
    /\ Done
    /\ {9, 18, 20} \subseteq Dispatched
    /\ 7 \notin Dispatched
    /\ {21, 22, 23, 24} \subseteq result.set
    /\ tcx_items[9].tps = 0 /\ ~tcx_items[21].inline /\ tcx_items[22].inline
    /\ 21 \notin Walked /\ 22 \in Walked
    /\ tcx_items[20].tps > 0 /\ ~tcx_items[23].inline /\ 23 \in Walked
    /\ 24 \notin Walked

(***************************************************************************)
(* C16.                                                                    *)
(***************************************************************************)
\* the items declared in b's body
NestedItems(b) == {x.id : x \in {y \in Range(tcx_items[b].body) : y.e = "item"}}

\* the items of this crate that the paths of b's body are bound to
ItemRefs(b) ==
    {r \in PathRefs(b) : r \in DOMAIN tcx_items /\ tcx_items[r].node = "item"}

\* C16: once the pass completed, every item declared in a walked body was
\* dispatched on and is in the set; a nested function with type parameters
\* or an inline attribute had its body walked, and so had the destructor
\* and the methods of a nested class under the guard of classes, with the
\* members marked, and the methods of a nested impl under the guard of
\* impl methods; the items those bodies refer to are in the set.
C16_NestedItems ==
    Done =>
        \A b \in Walked : \A i \in NestedItems(b) :
            /\ i \in Dispatched
            /\ i \in result.set
            /\ (tcx_items[i].kind = "fn" /\ GenericOrInline(i)) =>
                   (i \in Walked /\ ItemRefs(i) \subseteq result.set)
            /\ tcx_items[i].kind = "class" =>
                   \A x \in ClassMembers(i) :
                       /\ x \in result.set
                       /\ MemberGuard(i, x) =>
                              (x \in Walked /\ ItemRefs(x) \subseteq result.set)
            /\ tcx_items[i].kind = "impl" =>
                   \A m \in Range(tcx_items[i].subs) :
                       ImplMethodGuard(i, m) =>
                           /\ m \in result.set
                           /\ m \in Walked
                           /\ ItemRefs(m) \subseteq result.set

\* f alone is exported and the impls are generic.  n<T> and impl<T> J,
\* declared in f, and class R2<T>, declared inside an expression of f2,
\* were dispatched on and their bodies walked; trait Tr, which only J's
\* method names, is in the set while its module B was never traversed.
C16_Witness ==
    /\ Done
    /\ {1, 8} \subseteq Walked
    /\ {10, 28} \subseteq NestedItems(1) /\ 20 \in NestedItems(8)
    /\ {10, 20, 23, 28, 29} \subseteq result.set
    /\ {10, 23, 29} \subseteq Walked
    /\ 17 \in ItemRefs(23) /\ 17 \in result.set
    /\ 16 \in ItemRefs(29)
    /\ \A b \in DOMAIN tcx_items \ {29} : 16 \notin ItemRefs(b)
    /\ 7 \notin Dispatched
    /\ 16 \in result.set

(***************************************************************************)
(* C17.                                                                    *)
(***************************************************************************)
\* the type-expression nodes below a list of nodes: type arguments, and
\* the children of the other shapes
RECURSIVE TyTree(_)
TyTree(ts) ==
    IF ts = <<>> THEN {}
    ELSE {Head(ts)} \cup TyTree(TyNodes[Head(ts)].types) \cup TyTree(Tail(ts))

\* the items of this crate that the named-type references of alias a's
\* type expression are bound to
NamedItems(a) ==
    {def_map[TyNodes[t].p_id].node :
        t \in {u \in TyTree(tcx_items[a].ty) :
                 /\ TyNodes[u].k = "path"
                 /\ TyNodes[u].p_id \in DOMAIN def_map
                 /\ def_map[TyNodes[u].p_id].k = "def"
                 /\ def_map[TyNodes[u].p_id].crate = local_crate
                 /\ def_map[TyNodes[u].p_id].node \in DOMAIN tcx_items
                 /\ tcx_items[def_map[TyNodes[u].p_id].node].node = "item"}}

\* t is a type argument, at some depth, of a named-type reference that the
\* walk does not resolve: bound to a primitive type, to another crate, to
\* no item, or not bound
UnderUnresolved(t) ==
    \E u \in DOMAIN TyNodes :
        /\ TyNodes[u].k = "path"
        /\ t \in TyTree(TyNodes[u].types)
        /\ \/ TyNodes[u].p_id \notin DOMAIN def_map
           \/ def_map[TyNodes[u].p_id].k = "prim"
           \/ def_map[TyNodes[u].p_id].crate # local_crate
           \/ def_map[TyNodes[u].p_id].node \notin DOMAIN tcx_items

\* C17: once the pass completed, every item of this crate that a
\* named-type reference anywhere in the type expression of a dispatched
\* alias is bound to is in the set, and every node of that type expression
\* was walked.
C17_AliasNames ==
    Done =>
        \A a \in Dispatched : IsItem(a, "ty") =>
            /\ NamedItems(a) \subseteq result.set
            /\ TyTree(tcx_items[a].ty) \subseteq Events("ty")

\* The crate exports module A, whose items are all public, and module B
\* exports T1 alone: only the aliases lead to T2 and E in the export pass,
\* and to R.  T1 = T2<prim<E>> names E as the argument of a primitive
\* type; T2 = [T1, unbound<extern::X<R, gone>>] names R two levels down,
\* under an unbound name and a name of another crate.
C17_Witness ==
    /\ Done
    /\ Exports(7) = <<Local(13)>>
    /\ 7 \notin Events("implicit")
    /\ {13, 14} \subseteq Dispatched
    /\ NamedItems(13) = {14, 15}
    /\ NamedItems(14) = {13, 9}
    /\ UnderUnresolved(33) /\ def_map[TyNodes[33].p_id] = Local(15)
    /\ UnderUnresolved(37) /\ def_map[TyNodes[37].p_id] = Local(9)
    /\ UnderUnresolved(38) /\ 97 \in Events("def")
    /\ {9, 14, 15} \subseteq ExportPassItems
    /\ {9, 13, 14, 15} \subseteq result.set
    /\ {33, 37} \subseteq Events("ty")
    /\ 25 \notin result.set

(***************************************************************************)
(* C18.                                                                    *)
(***************************************************************************)
C18_Step ==
    (/\ pc = "running"
     /\ stack # <<>>
     /\ Head(stack).op = "traverse_public_item"
     /\ tcx_items[Head(stack).id].kind \in {"const", "enum", "trait"}
     /\ Head(stack).id \notin rmap)
        => /\ rmap' = rmap \cup {Head(stack).id}
           /\ stack' = Tail(stack)
           /\ pc' = "running"

\* C18: the dispatch on a constant, an enum or a trait marks the item and
\* returns: the step adds the item's id to the set and nothing else, and
\* leaves nothing to run for the item.
C18_LeafItems == [][C18_Step]_vars

\* f alone is exported and the impls are generic: const c was reached from
\* m2's body and trait Tr, just now, from the method of impl J.  Neither
\* h, which c's initializer names, nor Tr's method, nor a variant is in
\* the set.
C18_Witness ==
    /\ pc = "running"
    /\ log # <<>>
    /\ LastEvent = <<"item", 16>>
    /\ inserted = {16}
    /\ 17 \in Dispatched
    /\ tcx_items[16].kind = "trait" /\ tcx_items[17].kind = "const"
    /\ 5 \in PathRefs(17)
    /\ {16, 17} \subseteq rmap
    /\ rmap \cap ({5, 19} \cup Range(tcx_items[16].subs)) = {}

(***************************************************************************)
(* C19.                                                                    *)
(***************************************************************************)
\* the positions of the log that record a dispatch of Item Traversal, the
\* walk of a type-expression node or the walk of a body
Visits == {j \in 1..Len(log) : log[j][1] \in {"item", "ty", "body"}}

Occurrences(e) == Cardinality({j \in 1..Len(log) : log[j] = e})

\* C19: in a run, no item is dispatched on twice, no type-expression node
\* is walked twice and no body is walked twice.
C19_AtMostOnce == Cardinality({log[j] : j \in Visits}) = Cardinality(Visits)

\* The crate exports f and module A.  f was named by the export entry and
\* by the bodies of f2 and n, impl I by static calls of m2 and by the
\* retention pass, T1 by module B's item list and by T2: each was
\* dispatched on once, and f's body and T1's type expression walked once.
C19_Witness ==
    /\ Done
    /\ Exports(crate_node_id) = <<Local(1), Local(3)>>
    /\ Occurrences(<<"def", 1>>) >= 3
    /\ Occurrences(<<"item", 1>>) = 1 /\ Occurrences(<<"body", 1>>) = 1
    /\ Occurrences(<<"def", 12>>) >= 2
    /\ Occurrences(<<"item", 6>>) = 1
    /\ 7 \in Events("implicit") /\ 13 \in Events("def")
    /\ Occurrences(<<"item", 13>>) = 1 /\ Occurrences(<<"ty", 30>>) = 1
====
